---- MODULE Spec2Model ----
(***************************************************************************)
(* Lap segmentation, lap selection and lap alignment of the telemetry      *)
(* suite: ghost.py (find_ghost_lap), get_live_lap.py (find_median_lap),    *)
(* model_trainer.py (train_model), pages/3 (load_all_lap_data) and         *)
(* pages/2 (load_and_prepare_data).                                        *)
(*                                                                         *)
(* Numbers.  A telemetry value is an exact rational <<n, d>> (d > 0), NaN  *)
(* is the empty tuple.  Time is counted in ticks of 5 ms: the resampling   *)
(* step of 0.01 s is GridStep = 2 ticks, one second is 100 * GridStep.     *)
(* A well-formed timestamp string is identified with the instant it        *)
(* denotes (a tick count >= 0); a negative code is a malformed string.     *)
(***************************************************************************)
EXTENDS Integers, Sequences, FiniteSets, TLC

VARIABLES raw_csv,      \* the telemetry CSV: a sequence of long-format samples
          ghost_csv,    \* the file ghost_lap.csv
          live_csv,     \* the file live_lap.csv
          lap_reset_threshold_meters,   \* configuration: the reset threshold passed to the calls
          min_lap_time_seconds,         \* configuration: the minimum lap time passed to the calls
          ret,          \* what the last call returned, with its locals at exit
          aligned,      \* what load_and_prepare_data returned last
          shown,        \* what the coach page displays for the chosen lap time
          features_df,  \* what the prediction page or the trainer computed from a lap last
          cache         \* the st.cache_data stores of the two cached page functions

vars == <<raw_csv, ghost_csv, live_csv, lap_reset_threshold_meters, min_lap_time_seconds,
          ret, aligned, shown, features_df, cache>>

----------------------------------------------------------------------------
(* Values *)

NaN == <<>>
Num(n) == <<n, 1>>
IsNaN(c) == c = NaN
NotNaN(c) == c # NaN

\* a - b < k for rationals a, b and an integer k
DiffBelow(a, b, k) == a[1] * b[2] - b[1] * a[2] < k * a[2] * b[2]

GridStep == 2
Secs(s) == s * 100 * GridStep

DIST == "Laptrigger_lapdist_dls"
SPEED == "speed"

\* the channel list of the handlers, cut down to the two channels the model carries
telemetry_cols == <<DIST, SPEED>>

NaT == <<>>
\* stand-in for iNaT / 10**9 (about -9.2e9 s), far below every real time_sec
NaTSec == -1000000000

DefaultThreshold == -3000
DefaultMinLap == Secs(60)

Range(s) == {s[i] : i \in DOMAIN s}

RECURSIVE SumOver(_, _)
SumOver(f, S) ==
    IF S = {} THEN 0
    ELSE LET x == CHOOSE y \in S : TRUE IN f[x] + SumOver(f, S \ {x})

----------------------------------------------------------------------------
(* Telemetry Normalizer *)

\* index order of the pivot: the timestamp strings in sorted order
RECURSIVE SortedKeys(_)
SortedKeys(S) ==
    IF S = {} THEN <<>>
    ELSE LET m == CHOOSE x \in S : \A y \in S : x <= y
         IN <<m>> \o SortedKeys(S \ {m})

\* df.pivot_table(index='timestamp', columns='telemetry_name',
\*                values='telemetry_value', aggfunc='mean').reset_index()
\* mutant: aggfunc='last', the sample listed last wins
PivotCellLast(df, ts, name) ==
    LET I == {i \in DOMAIN df : df[i].timestamp = ts /\ df[i].telemetry_name = name}
    IN IF I = {} THEN NaN
       ELSE Num(df[CHOOSE i \in I : \A j \in I : i >= j].telemetry_value)

PivotCell(df, ts, name) ==
    LET I == {i \in DOMAIN df : df[i].timestamp = ts /\ df[i].telemetry_name = name}
    IN IF I = {} THEN NaN
       ELSE <<SumOver([i \in I |-> df[i].telemetry_value], I), Cardinality(I)>>

PivotTable(df) ==
    LET keys == SortedKeys({df[i].timestamp : i \in DOMAIN df})
        names == {df[i].telemetry_name : i \in DOMAIN df}
    IN [columns |-> names,
        rows |-> [k \in DOMAIN keys |->
                    [timestamp |-> keys[k],
                     vals |-> [n \in names |-> PivotCell(df, keys[k], n)]]]]

\* pd.to_datetime(..., errors='coerce')
ToDatetime(ts) == IF ts < 0 THEN NaT ELSE <<ts>>

\* sort_values(by='timestamp_dt'): ascending, NaT last, equal keys in index order
DtBefore(a, b) == a # NaT /\ (b = NaT \/ a[1] < b[1])

RECURSIVE InsertSorted(_, _)
InsertSorted(s, r) ==
    IF s = <<>> THEN <<r>>
    ELSE IF DtBefore(r.timestamp_dt, s[Len(s)].timestamp_dt)
         THEN InsertSorted(SubSeq(s, 1, Len(s) - 1), r) \o <<s[Len(s)]>>
         ELSE Append(s, r)

RECURSIVE SortValues(_)
SortValues(rows) ==
    IF rows = <<>> THEN <<>>
    ELSE InsertSorted(SortValues(SubSeq(rows, 1, Len(rows) - 1)), rows[Len(rows)])

\* (timestamp_dt.astype(int) / 10**9): NaT becomes a number, not NaN
TimeSec(dt) == IF dt = NaT THEN NaTSec ELSE dt[1]

\* .ffill() of one column
RECURSIVE Ffill(_)
Ffill(col) ==
    IF col = <<>> THEN <<>>
    ELSE LET init == Ffill(SubSeq(col, 1, Len(col) - 1))
             last == col[Len(col)]
         IN Append(init, IF IsNaN(last) /\ init # <<>> THEN init[Len(init)] ELSE last)

\* lines 14-38 of find_ghost_lap (the same lines open find_median_lap and
\* train_model): pivot, parse, sort, time_sec, ffill of cols, dropna
NormalizeFrame(df, cols) ==
    LET wide == PivotTable(df)
    IN IF df = <<>> \/ \E i \in DOMAIN cols : cols[i] \notin wide.columns
       THEN [ok |-> FALSE, error |-> "KeyError", rows |-> <<>>]
       ELSE
       LET dated == [k \in DOMAIN wide.rows |->
                       [timestamp |-> wide.rows[k].timestamp,
                        timestamp_dt |-> ToDatetime(wide.rows[k].timestamp),
                        vals |-> wide.rows[k].vals]]
           sorted == SortValues(dated)
           filled == [c \in Range(cols) |->
                        Ffill([k \in DOMAIN sorted |-> sorted[k].vals[c]])]
           frame == [k \in DOMAIN sorted |->
                       [timestamp |-> sorted[k].timestamp,
                        time_sec |-> TimeSec(sorted[k].timestamp_dt),
                        vals |-> [c \in Range(cols) |-> filled[c][k]]]]
           Keep(r) == NotNaN(r.vals[DIST])
       IN [ok |-> TRUE, error |-> "", rows |-> SelectSeq(frame, Keep)]

----------------------------------------------------------------------------
(* Lap Segmenter *)

\* mutant: a drop of exactly the threshold counts as a crossing
CrossingRowsInclusive(frame, threshold) ==
    {k \in DOMAIN frame : k > 1 /\
        ~DiffBelow(frame[k - 1].vals[DIST], frame[k].vals[DIST], -threshold)}

\* df_valid[df_valid['dist_diff'] < lap_reset_threshold_meters]['time_sec'].values
CrossingRows(frame, threshold) ==
    {k \in DOMAIN frame : k > 1 /\
        DiffBelow(frame[k].vals[DIST], frame[k - 1].vals[DIST], threshold)}

CrossingTimes(frame, threshold) ==
    LET ks == SortedKeys(CrossingRows(frame, threshold))
    IN [j \in DOMAIN ks |-> frame[ks[j]].time_sec]

\* np.diff(crossing_timestamps_sec)
LapDurations(crossings) ==
    [i \in 1 .. (Len(crossings) - 1) |-> crossings[i + 1] - crossings[i]]

\* mutant: the filter lets a lap of exactly the minimum through
ValidMaskInclusive(durations, min_time) ==
    [i \in DOMAIN durations |-> durations[i] >= min_time]

\* lap_durations > min_lap_time_seconds
ValidMask(durations, min_time) ==
    [i \in DOMAIN durations |-> durations[i] > min_time]

\* indices of the True entries of the mask, in order
ValidIndices(mask) == SortedKeys({i \in DOMAIN mask : mask[i]})

----------------------------------------------------------------------------
(* Lap Selector *)

\* mutant: the slice keeps the row of the closing crossing
SliceRowsClosed(frame, start_time, end_time) ==
    LET In(r) == r.time_sec >= start_time /\ r.time_sec <= end_time
    IN SelectSeq(frame, In)

\* df_valid[(time_sec >= start) & (time_sec < end)], then
\* lap_timestamp = time_sec - time_sec.min()
SliceRows(frame, start_time, end_time) ==
    LET In(r) == r.time_sec >= start_time /\ r.time_sec < end_time
    IN SelectSeq(frame, In)

MinTimeSec(rows) ==
    CHOOSE m \in {rows[k].time_sec : k \in DOMAIN rows} :
        \A k \in DOMAIN rows : m <= rows[k].time_sec

LapRecord(frame, start_time, end_time) ==
    LET rows == SliceRows(frame, start_time, end_time)
    IN [k \in DOMAIN rows |->
          [time_sec |-> rows[k].time_sec,
           lap_timestamp |-> rows[k].time_sec - MinTimeSec(rows),
           vals |-> rows[k].vals]]

\* np.min(valid_lap_durations)
MinOf(s) == CHOOSE m \in Range(s) : \A i \in DOMAIN s : m <= s[i]

\* mutant: the last matching index instead of the first
LastIndexOf(durations, value) ==
    CHOOSE i \in DOMAIN durations :
        durations[i] = value /\ \A j \in (i + 1) .. Len(durations) : durations[j] # value

\* np.where(lap_durations == value)[0][0]
FirstIndexOf(durations, value) ==
    CHOOSE i \in DOMAIN durations :
        durations[i] = value /\ \A j \in 1 .. (i - 1) : durations[j] # value

AbsVal(x) == IF x < 0 THEN -x ELSE x

\* twice np.median(s): the middle value, or the sum of the two middle values
RECURSIVE SortInts(_)
SortInts(s) ==
    IF s = <<>> THEN <<>>
    ELSE LET i == CHOOSE a \in DOMAIN s : \A b \in DOMAIN s : s[a] <= s[b]
         IN <<s[i]>> \o SortInts([k \in 1 .. (Len(s) - 1) |-> IF k < i THEN s[k] ELSE s[k + 1]])

TwiceMedian(s) ==
    LET o == SortInts(s)
        n == Len(s)
    IN IF n % 2 = 1 THEN 2 * o[(n + 1) \div 2] ELSE o[n \div 2] + o[n \div 2 + 1]

\* mutant: the last index of the least distance
ArgminAbsDevLast(valid, twice_median) ==
    CHOOSE i \in DOMAIN valid :
        /\ \A j \in DOMAIN valid :
              AbsVal(2 * valid[i] - twice_median) <= AbsVal(2 * valid[j] - twice_median)
        /\ \A j \in (i + 1) .. Len(valid) :
              AbsVal(2 * valid[j] - twice_median) > AbsVal(2 * valid[i] - twice_median)

\* np.argmin(np.abs(valid - median)): the first index of the least distance
ArgminAbsDev(valid, twice_median) ==
    CHOOSE i \in DOMAIN valid :
        /\ \A j \in DOMAIN valid :
              AbsVal(2 * valid[i] - twice_median) <= AbsVal(2 * valid[j] - twice_median)
        /\ \A j \in 1 .. (i - 1) :
              AbsVal(2 * valid[j] - twice_median) > AbsVal(2 * valid[i] - twice_median)

NoFile == [exists |-> FALSE, rows |-> <<>>]
File(rows) == [exists |-> TRUE, rows |-> rows]

\* the locals a call holds when it returns: df_valid, crossing_timestamps_sec and the
\* selected interval
NoLocals == [frame |-> <<>>, crossings |-> <<>>, start_time |-> 0, end_time |-> 0,
             duration |-> 0]
LocalsOf(frame, crossings) == [NoLocals EXCEPT !.frame = frame, !.crossings = crossings]

\* mutant: the failure path saves the (empty) lap before it returns
FailureAfterSave(fn, outcome, frame, crossings) ==
    [fn |-> fn, outcome |-> outcome, value |-> <<>>, wrote |-> TRUE,
     locals |-> LocalsOf(frame, crossings)]

\* print(...); return None
Failure(fn, outcome, frame, crossings) ==
    [fn |-> fn, outcome |-> outcome, value |-> <<>>, wrote |-> FALSE,
     locals |-> LocalsOf(frame, crossings)]

\* the tail both selectors share (ghost.py lines 62-81): slice, re-base, save, return
Materialize(fn, frame, crossings, durations, index) ==
    LET start_time_sec == crossings[index]
        end_time_sec == crossings[index + 1]
    IN [fn |-> fn, outcome |-> "ok",
        value |-> LapRecord(frame, start_time_sec, end_time_sec),
        wrote |-> TRUE,
        locals |-> [frame |-> frame, crossings |-> crossings, start_time |-> start_time_sec,
                    end_time |-> end_time_sec, duration |-> durations[index]]]

find_ghost_lap(df, threshold, min_time) ==
    LET norm == NormalizeFrame(df, telemetry_cols)
        crossings == CrossingTimes(norm.rows, threshold)
        durations == LapDurations(crossings)
        mask == ValidMask(durations, min_time)
        vi == ValidIndices(mask)
        valid_lap_durations == [j \in DOMAIN vi |-> durations[vi[j]]]
        fastest_duration == MinOf(valid_lap_durations)
    IN IF ~norm.ok THEN Failure("find_ghost_lap", norm.error, <<>>, <<>>)
       ELSE IF Len(crossings) < 2
            THEN Failure("find_ghost_lap", "insufficient_data", norm.rows, crossings)
       ELSE IF vi = <<>> THEN Failure("find_ghost_lap", "no_valid_lap", norm.rows, crossings)
       ELSE Materialize("find_ghost_lap", norm.rows, crossings, durations,
                        FirstIndexOf(durations, fastest_duration))

find_median_lap(df, threshold, min_time) ==
    LET norm == NormalizeFrame(df, telemetry_cols)
        crossings == CrossingTimes(norm.rows, threshold)
        durations == LapDurations(crossings)
        mask == ValidMask(durations, min_time)
        vi == ValidIndices(mask)
        valid_lap_durations == [j \in DOMAIN vi |-> durations[vi[j]]]
        median_lap_duration ==
            valid_lap_durations[ArgminAbsDev(valid_lap_durations,
                                             TwiceMedian(valid_lap_durations))]
    IN IF ~norm.ok THEN Failure("find_median_lap", norm.error, <<>>, <<>>)
       ELSE IF Len(crossings) < 2
            THEN Failure("find_median_lap", "insufficient_data", norm.rows, crossings)
       ELSE IF vi = <<>> THEN Failure("find_median_lap", "no_valid_lap", norm.rows, crossings)
       ELSE Materialize("find_median_lap", norm.rows, crossings, durations,
                        FirstIndexOf(durations, median_lap_duration))

----------------------------------------------------------------------------
(* The callers that segment every lap *)

\* crossing_timestamps_sec[:-1][mask], crossing_timestamps_sec[1:][mask], durations[mask]
ValidIntervals(crossings, min_time) ==
    LET durations == LapDurations(crossings)
        vi == ValidIndices(ValidMask(durations, min_time))
    IN [j \in DOMAIN vi |->
          [number |-> vi[j], start_time |-> crossings[vi[j]],
           end_time |-> crossings[vi[j] + 1], duration |-> durations[vi[j]]]]

\* train_test_split(X, y, test_size=0.2) raises ValueError when a side would be empty
SplitFails(n_samples) == n_samples < 2

\* model_trainer.py: returns None in every case; the outcome tells the cases apart
train_model(df, threshold, min_time) ==
    LET norm == NormalizeFrame(df, telemetry_cols)
        crossings == CrossingTimes(norm.rows, threshold)
        laps == ValidIntervals(crossings, min_time)
        NonEmpty(l) == SliceRows(norm.rows, l.start_time, l.end_time) # <<>>
        features == SelectSeq(laps, NonEmpty)
    IN IF ~norm.ok THEN Failure("train_model", norm.error, <<>>, <<>>)
       ELSE IF Len(crossings) < 2
            THEN Failure("train_model", "insufficient_data", norm.rows, crossings)
       ELSE [fn |-> "train_model",
             outcome |-> IF SplitFails(Len(features)) THEN "ValueError" ELSE "trained",
             value |-> features, wrote |-> FALSE, locals |-> LocalsOf(norm.rows, crossings)]

\* bins = [0.0, 1364.3, 2751.2, 6000.0] in tenths of a metre
SectorBins == <<0, 13643, 27512, 60000>>
SectorLabels == <<"Sector 1", "Sector 2", "Sector 3">>

\* mutant: right=False, the ranges are closed below and open above
CutLeftClosed(c) ==
    IF IsNaN(c) THEN NaN
    ELSE LET hit == {b \in 1 .. 3 : /\ SectorBins[b] * c[2] <= 10 * c[1]
                                   /\ 10 * c[1] < SectorBins[b + 1] * c[2]}
         IN IF hit = {} THEN NaN ELSE <<SectorLabels[CHOOSE b \in hit : TRUE]>>

\* pd.cut(x, bins=bins, labels=labels, right=True) of one value: NaN outside (0, 6000]
Cut(c) ==
    IF IsNaN(c) THEN NaN
    ELSE LET hit == {b \in 1 .. 3 : /\ SectorBins[b] * c[2] < 10 * c[1]
                                   /\ 10 * c[1] <= SectorBins[b + 1] * c[2]}
         IN IF hit = {} THEN NaN ELSE <<SectorLabels[CHOOSE b \in hit : TRUE]>>

\* lap_data.groupby('sector')['time_sec'].apply(max - min), .get(label, 0)
SectorTime(rows, label) ==
    LET T == {rows[k].time_sec : k \in {j \in DOMAIN rows : rows[j].sector = <<label>>}}
    IN IF T = {} THEN 0
       ELSE (CHOOSE a \in T : \A b \in T : a >= b) - (CHOOSE a \in T : \A b \in T : a <= b)

\* pages/3 lines 15-29: as NormalizeFrame, but every column is forward-filled and
\* only the distance column is required
NormalizeAll(df) ==
    LET wide == PivotTable(df)
    IN IF df = <<>> \/ DIST \notin wide.columns
       THEN [ok |-> FALSE, error |-> "KeyError", rows |-> <<>>]
       ELSE
       LET dated == [k \in DOMAIN wide.rows |->
                       [timestamp |-> wide.rows[k].timestamp,
                        timestamp_dt |-> ToDatetime(wide.rows[k].timestamp),
                        vals |-> wide.rows[k].vals]]
           sorted == SortValues(dated)
           filled == [c \in wide.columns |->
                        Ffill([k \in DOMAIN sorted |-> sorted[k].vals[c]])]
           frame == [k \in DOMAIN sorted |->
                       [timestamp |-> sorted[k].timestamp,
                        time_sec |-> TimeSec(sorted[k].timestamp_dt),
                        vals |-> [c \in wide.columns |-> filled[c][k]],
                        sector |-> Cut(filled[DIST][k])]]
           Keep(r) == NotNaN(r.vals[DIST])
       IN [ok |-> TRUE, error |-> "", rows |-> SelectSeq(frame, Keep)]

\* pages/3 load_all_lap_data: (None, None) on failure, else (laps table, frame)
load_all_lap_data(df, threshold, min_time) ==
    LET norm == NormalizeAll(df)
        crossing_times == CrossingTimes(norm.rows, threshold)
        laps == ValidIntervals(crossing_times, min_time)
        laps_list ==
            [j \in DOMAIN laps |->
               LET lap_data == SliceRows(norm.rows, laps[j].start_time, laps[j].end_time)
               IN [number |-> laps[j].number, start_time |-> laps[j].start_time,
                   end_time |-> laps[j].end_time, duration |-> laps[j].duration,
                   S1 |-> SectorTime(lap_data, "Sector 1"),
                   S2 |-> SectorTime(lap_data, "Sector 2"),
                   S3 |-> SectorTime(lap_data, "Sector 3"),
                   data |-> lap_data]]
    IN IF ~norm.ok THEN Failure("load_all_lap_data", norm.error, <<>>, <<>>)
       ELSE IF Len(crossing_times) < 2
            THEN Failure("load_all_lap_data", "insufficient_data", norm.rows, crossing_times)
       ELSE [fn |-> "load_all_lap_data", outcome |-> "ok", value |-> laps_list,
             wrote |-> FALSE, locals |-> LocalsOf(norm.rows, crossing_times)]

\* Series.min() of a column without NaN
Least(V) == CHOOSE a \in V : \A b \in V : a <= b

\* pages/3, the key statistics of a non-empty laps table: the fastest lap time, the sum
\* of the best S1, S2 and S3, and their difference
RaceSummary(laps_df) ==
    LET fastest_lap_time == Least({laps_df[j].duration : j \in DOMAIN laps_df})
        best_s1 == Least({laps_df[j].S1 : j \in DOMAIN laps_df})
        best_s2 == Least({laps_df[j].S2 : j \in DOMAIN laps_df})
        best_s3 == Least({laps_df[j].S3 : j \in DOMAIN laps_df})
        theoretical_best == best_s1 + best_s2 + best_s3
    IN [fastest_lap_time |-> fastest_lap_time,
        theoretical_best |-> theoretical_best,
        potential_gain |-> fastest_lap_time - theoretical_best]

----------------------------------------------------------------------------
(* Resampler/Aligner: pages/2 load_and_prepare_data *)

\* telemetry_cols[1:], cut down to the two channels the model carries
align_cols == <<SPEED, DIST>>

MaxOf(S) == CHOOSE m \in S : \A x \in S : m >= x

\* ghost_df.reindex(columns=telemetry_cols[1:]) after set_index('lap_timestamp'):
\* a column the file lacks arrives as NaN
ReadIndexed(file) ==
    [k \in DOMAIN file.rows |->
       [t |-> file.rows[k].lap_timestamp,
        vals |-> [c \in Range(align_cols) |->
                    IF c \in DOMAIN file.rows[k].vals THEN file.rows[k].vals[c] ELSE NaN]]]

IndexOf(df) == {df[k].t : k \in DOMAIN df}

\* mutant: the grid starts one step late
CombinedIndexFromStep(stop) ==
    [i \in 1 .. ((stop + GridStep - 1) \div GridStep) |-> i * GridStep]

\* np.arange(0, stop, 0.01): 0, step, 2 step, ... below stop
CombinedIndex(stop) ==
    [i \in 1 .. ((stop + GridStep - 1) \div GridStep) |-> (i - 1) * GridStep]

\* df.reindex(index): the rows of df at the index points, NaN rows elsewhere
Reindex(df, index) ==
    [i \in DOMAIN index |->
       IF index[i] \in IndexOf(df)
       THEN LET k == CHOOSE j \in DOMAIN df : df[j].t = index[i] IN df[k]
       ELSE [t |-> index[i], vals |-> [c \in Range(align_cols) |-> NaN]]]

\* the value on the line through (t1, a) and (t2, b) at time t
Lerp(t1, a, t2, b, t) ==
    <<a[1] * b[2] * (t2 - t) + b[1] * a[2] * (t - t1), a[2] * b[2] * (t2 - t1)>>

\* .interpolate('time') of one column: a missing point between two valid ones lies on
\* the line through its valid neighbours, one after the last valid point takes its
\* value, one before the first valid point stays NaN
InterpolateTime(df, c) ==
    LET valid == {k \in DOMAIN df : NotNaN(df[k].vals[c])}
    IN [k \in DOMAIN df |->
          IF k \in valid THEN df[k].vals[c]
          ELSE LET before == {j \in valid : j < k}
                   after == {j \in valid : j > k}
               IN IF before = {} THEN NaN
                  ELSE IF after = {} THEN df[MaxOf(before)].vals[c]
                  ELSE LET a == MaxOf(before)
                           b == CHOOSE j \in after : \A x \in after : j <= x
                       IN Lerp(df[a].t, df[a].vals[c], df[b].t, df[b].vals[c], df[k].t)]

Interpolate(df) ==
    [k \in DOMAIN df |->
       [t |-> df[k].t, vals |-> [c \in Range(align_cols) |-> InterpolateTime(df, c)[k]]]]

Reverse(s) == [i \in DOMAIN s |-> s[Len(s) + 1 - i]]

\* .bfill() of one column
Bfill(col) == Reverse(Ffill(Reverse(col)))

\* .ffill().bfill() of a table
FillEdges(df) ==
    LET filled == [c \in Range(align_cols) |-> Bfill(Ffill([k \in DOMAIN df |-> df[k].vals[c]]))]
    IN [k \in DOMAIN df |->
          [t |-> df[k].t, vals |-> [c \in Range(align_cols) |-> filled[c][k]]]]

\* df.reindex(df.index.union(combined_index)).interpolate('time')
\*   .reindex(combined_index), then .ffill().bfill()
Resample(df, combined_index) ==
    FillEdges(Reindex(
        Interpolate(Reindex(df, SortedKeys(IndexOf(df) \cup Range(combined_index)))),
        combined_index))

RECURSIVE Gcd(_, _)
Gcd(a, b) == IF b = 0 THEN a ELSE Gcd(b, a % b)

\* a + b and a - b of two cells on their least common denominator; NaN if either is NaN
Plus(a, b) ==
    IF IsNaN(a) \/ IsNaN(b) THEN NaN
    ELSE LET l == (a[2] \div Gcd(a[2], b[2])) * b[2]
         IN <<a[1] * (l \div a[2]) + b[1] * (l \div b[2]), l>>
Minus(a, b) == IF IsNaN(b) THEN NaN ELSE Plus(a, <<-b[1], b[2]>>)

\* (live speed - ghost speed) / 3600 * 0.01
Delta(live_speed, ghost_speed) ==
    LET d == Minus(live_speed, ghost_speed)
    IN IF IsNaN(d) THEN NaN ELSE <<d[1], d[2] * 360000>>

\* .cumsum(): the running sum skips a NaN and leaves it in place
RECURSIVE Cumsum(_)
Cumsum(col) ==
    IF col = <<>> THEN <<>>
    ELSE LET init == Cumsum(SubSeq(col, 1, Len(col) - 1))
             seen == Ffill(init)
             running == IF seen = <<>> \/ IsNaN(seen[Len(seen)]) THEN Num(0)
                        ELSE seen[Len(seen)]
             last == col[Len(col)]
         IN Append(init, IF IsNaN(last) THEN NaN ELSE Plus(running, last))

\* pd.cut of the distance column, then .ffill().bfill() of the labels
SectorColumn(table) ==
    Bfill(Ffill([k \in DOMAIN table |-> Cut(table[k].vals[DIST])]))

\* table.groupby('sector').apply(len) * 0.01: the grouping keeps all three categories,
\* one without rows has length 0
SectorTimes(sector) ==
    [b \in DOMAIN SectorLabels |->
       <<Cardinality({k \in DOMAIN sector : sector[k] = <<SectorLabels[b]>>}), 100>>]

\* sector_analysis_df: ghost time, live time and their difference per sector
SectorAnalysis(ghost_sector, live_sector) ==
    [b \in DOMAIN SectorLabels |->
       [sector |-> SectorLabels[b],
        ghost_time |-> SectorTimes(ghost_sector)[b],
        live_time |-> SectorTimes(live_sector)[b],
        delta |-> Minus(SectorTimes(live_sector)[b], SectorTimes(ghost_sector)[b])]]

NoAligned ==
    [outcome |-> "", ghost |-> <<>>, live |-> <<>>, sector_analysis |-> <<>>,
     ghost_base_time |-> 0]
AlignFailure(outcome) == [NoAligned EXCEPT !.outcome = outcome]

\* an index with a repeated label cannot be reindexed; an empty file has no index maximum
Unusable(df) == df = <<>> \/ Cardinality(IndexOf(df)) # Len(df)

load_and_prepare_data(ghost_file, live_file) ==
    IF ~ghost_file.exists \/ ~live_file.exists THEN AlignFailure("FileNotFoundError")
    ELSE
    LET ghost_df == ReadIndexed(ghost_file)
        live_df == ReadIndexed(live_file)
    IN IF Unusable(ghost_df) \/ Unusable(live_df) THEN AlignFailure("Exception")
       ELSE
       LET combined_index ==
               CombinedIndex(MaxOf({MaxOf(IndexOf(ghost_df)), MaxOf(IndexOf(live_df))}))
           ghost_resampled == Resample(ghost_df, combined_index)
           live_resampled == Resample(live_df, combined_index)
           delta == [k \in DOMAIN live_resampled |->
                       Delta(live_resampled[k].vals[SPEED], ghost_resampled[k].vals[SPEED])]
           cumulative == Cumsum(delta)
           ghost_sector == SectorColumn(ghost_resampled)
           live_sector == SectorColumn(live_resampled)
       IN [outcome |-> "ok",
           ghost |-> [k \in DOMAIN ghost_resampled |->
                        [t |-> ghost_resampled[k].t, vals |-> ghost_resampled[k].vals,
                         sector |-> ghost_sector[k]]],
           live |-> [k \in DOMAIN live_resampled |->
                       [t |-> live_resampled[k].t, vals |-> live_resampled[k].vals,
                        delta |-> delta[k], time_delta_cumulative |-> cumulative[k],
                        sector |-> live_sector[k]]],
           sector_analysis |-> SectorAnalysis(ghost_sector, live_sector),
           ghost_base_time |-> MaxOf(IndexOf(ghost_df))]

\* st.slider(min_value=0.0, max_value=total_time_sec, step=0.1)
SliderStep == 10 * GridStep

NoShown == [screen |-> "", current_time |-> 0, time_delta |-> NaN, verdict |-> "",
            projected_lap_time |-> NaN]

\* the slider positions of a live table: 0, 0.1, ... up to live.index.max()
SliderPositions(live) ==
    {k * SliderStep : k \in 0 .. (live[Len(live)].t \div SliderStep)}

\* time_delta > 0 of a cell: a NaN compares false
Positive(c) == NotNaN(c) /\ c[1] > 0

\* the page below the call: the row of the live table at the slider position, its
\* cumulative delta, the SLOWER / FASTER banner and the projected lap time
Display(result, current_time) ==
    IF result.outcome # "ok" THEN [NoShown EXCEPT !.screen = "waiting"]
    ELSE IF result.live = <<>> THEN [NoShown EXCEPT !.screen = "Exception"]
    ELSE LET live_now == result.live[current_time \div GridStep + 1]
             time_delta == live_now.time_delta_cumulative
         IN [screen |-> "coach",
             current_time |-> current_time,
             time_delta |-> time_delta,
             verdict |-> IF Positive(time_delta) THEN "SLOWER" ELSE "FASTER",
             projected_lap_time |-> Plus(<<result.ghost_base_time, Secs(1)>>, time_delta)]

----------------------------------------------------------------------------
(* Feature extraction: pages/1 extract_features and the loop body of train_model *)

NMOT == "nmot"
APS == "aps"
PBRAKE_F == "pbrake_f"
STEERING == "Steering_Angle"

\* the columns of a lap frame
ColumnsOf(lap_df) == IF lap_df = <<>> THEN {} ELSE DOMAIN lap_df[1].vals

\* lap_df[c]
Column(lap_df, c) == [k \in DOMAIN lap_df |-> lap_df[k].vals[c]]

RECURSIVE SumCells(_)
SumCells(col) ==
    IF col = <<>> THEN Num(0)
    ELSE Plus(SumCells(SubSeq(col, 1, Len(col) - 1)), col[Len(col)])

\* Series.mean(): the mean of the values that are not NaN, NaN if there is none
Mean(col) ==
    LET valid == SelectSeq(col, NotNaN)
    IN IF valid = <<>> THEN NaN
       ELSE <<SumCells(valid)[1], SumCells(valid)[2] * Len(valid)>>

\* Series.max(): the greatest value that is not NaN, NaN if there is none
Max(col) ==
    LET valid == {col[k] : k \in {j \in DOMAIN col : NotNaN(col[j])}}
    IN IF valid = {} THEN NaN
       ELSE CHOOSE m \in valid : \A x \in valid : Minus(m, x)[1] >= 0

\* Series.abs()
Abs(col) == [k \in DOMAIN col |-> IF IsNaN(col[k]) THEN NaN ELSE <<AbsVal(col[k][1]), col[k][2]>>]

\* mutant: the comparison lets the limit itself through
AboveOrEqual(col, limit) ==
    [k \in DOMAIN col |-> NotNaN(col[k]) /\ col[k][1] >= limit * col[k][2]]

\* lap_df[c] > limit: a boolean per row, False for a NaN
Above(col, limit) ==
    [k \in DOMAIN col |-> NotNaN(col[k]) /\ col[k][1] > limit * col[k][2]]

\* mask.mean() * 100 of a boolean column: NaN on an empty one
PercentOf(mask) ==
    IF mask = <<>> THEN NaN
    ELSE <<100 * Cardinality({k \in DOMAIN mask : mask[k]}), Len(mask)>>

feature_names ==
    <<"avg_speed", "max_speed", "avg_rpm", "max_rpm", "avg_throttle",
      "percent_full_throttle", "percent_braking", "avg_steering_angle">>

\* the channel each feature reads
FeatureChannel ==
    [avg_speed |-> SPEED, max_speed |-> SPEED, avg_rpm |-> NMOT, max_rpm |-> NMOT,
     avg_throttle |-> APS, percent_full_throttle |-> APS, percent_braking |-> PBRAKE_F,
     avg_steering_angle |-> STEERING]

NoFeatures == [fn |-> "", outcome |-> "", lap |-> <<>>, value |-> <<>>, filled |-> <<>>]

\* pages/1 extract_features(lap_df): a column the frame lacks raises KeyError
extract_features(lap_df) ==
    IF \E i \in DOMAIN feature_names : FeatureChannel[feature_names[i]] \notin ColumnsOf(lap_df)
    THEN [outcome |-> "KeyError", value |-> <<>>]
    ELSE [outcome |-> "ok",
          value |-> [avg_speed |-> Mean(Column(lap_df, SPEED)),
                     max_speed |-> Max(Column(lap_df, SPEED)),
                     avg_rpm |-> Mean(Column(lap_df, NMOT)),
                     max_rpm |-> Max(Column(lap_df, NMOT)),
                     avg_throttle |-> Mean(Column(lap_df, APS)),
                     percent_full_throttle |-> PercentOf(Above(Column(lap_df, APS), 95)),
                     percent_braking |-> PercentOf(Above(Column(lap_df, PBRAKE_F), 5)),
                     avg_steering_angle |-> Mean(Abs(Column(lap_df, STEERING)))]]

\* model_trainer.py, the lap_features dictionary of one lap slice
lap_features(lap_df) ==
    [avg_speed |-> Mean(Column(lap_df, SPEED)),
     max_speed |-> Max(Column(lap_df, SPEED)),
     avg_rpm |-> Mean(Column(lap_df, NMOT)),
     max_rpm |-> Max(Column(lap_df, NMOT)),
     avg_throttle |-> Mean(Column(lap_df, APS)),
     percent_full_throttle |-> PercentOf(Above(Column(lap_df, APS), 95)),
     percent_braking |-> PercentOf(Above(Column(lap_df, PBRAKE_F), 5)),
     avg_steering_angle |-> Mean(Abs(Column(lap_df, STEERING)))]

\* features_df.fillna(0)
Fillna0(value) == [f \in DOMAIN value |-> IF IsNaN(value[f]) THEN Num(0) ELSE value[f]]

\* the "Generate Prediction" button up to the regressor's input: read the chosen lap
\* file, extract_features, fillna(0)
generate_prediction(file) ==
    IF ~file.exists
    THEN [NoFeatures EXCEPT !.fn = "extract_features", !.outcome = "FileNotFoundError"]
    ELSE LET got == extract_features(file.rows)
         IN [fn |-> "extract_features", outcome |-> got.outcome, lap |-> file.rows,
             value |-> got.value,
             filled |-> IF got.outcome = "ok" THEN Fillna0(got.value) ELSE <<>>]

----------------------------------------------------------------------------
(* @st.cache_data: one store per decorated function, keyed by the call's arguments *)

NoStore == [key \in {} |-> <<>>]
NoCache == [load_and_prepare_data |-> NoStore, load_all_lap_data |-> NoStore]

\* the argument tuples the decorator has a value for
Remembered(store) == DOMAIN store

----------------------------------------------------------------------------
(* Input streams *)

Sample(ts, name, v) == [timestamp |-> ts, telemetry_name |-> name, telemetry_value |-> v]

MaxLaps == 3

RECURSIVE SeqsUpTo(_, _)
SeqsUpTo(S, n) ==
    IF n = 0 THEN {<<>>}
    ELSE LET shorter == SeqsUpTo(S, n - 1)
         IN shorter \cup {Append(q, x) : q \in {r \in shorter : Len(r) = n - 1}, x \in S}

\* time between two resets of the distance channel
Gaps == {Secs(60), Secs(65)}
\* the distance reached before a reset
Heights == {3000, 3001}
Variants == {"plain", "nospeed", "bad_dist", "bad_speed", "dup"}

RECURSIVE CrossingAt(_, _)
CrossingAt(gaps, k) == IF k = 1 THEN Secs(10) ELSE CrossingAt(gaps, k - 1) + gaps[k - 1]

RECURSIVE LapSamples(_, _, _)
LapSamples(gaps, height, k) ==
    IF k = 0 THEN <<Sample(0, DIST, height)>>
    ELSE LapSamples(gaps, height, k - 1) \o
         <<Sample(CrossingAt(gaps, k), DIST, 0),
           Sample(CrossingAt(gaps, k) + 1, DIST, height)>>

\* a session of Len(gaps) + 1 resets: the distance climbs to height, drops to 0 at each
\* reset and is back at height one tick later
PlanStream(gaps, height, variant) ==
    LET base == LapSamples(gaps, height, Len(gaps) + 1)
        speed == <<Sample(Secs(10) + 1, SPEED, 100)>>
    IN CASE variant = "plain" -> base \o speed
         [] variant = "nospeed" -> base
         [] variant = "bad_dist" -> <<Sample(-1, DIST, 0)>> \o base \o speed
         [] variant = "bad_speed" -> <<Sample(-1, SPEED, 90)>> \o base \o speed
         [] variant = "dup" -> base \o speed \o <<Sample(Secs(10) + 1, DIST, height + 2)>>

\* section 8 of the spec: resets at t = 100 s and t = 165 s, from top down to 0
ResetScenario(top) ==
    <<Sample(Secs(50), DIST, 1500), Sample(Secs(50), SPEED, 120),
      Sample(Secs(99), DIST, top), Sample(Secs(100), DIST, 0),
      Sample(Secs(130), DIST, 1500), Sample(Secs(164), DIST, top),
      Sample(Secs(165), DIST, 0), Sample(Secs(170), DIST, 200)>>

\* section 8 of the spec: laps of 60.1 s, 65.0 s, 70.2 s and 300.0 s
MedianScenario == PlanStream(<<Secs(60) + 20, Secs(65), Secs(70) + 40, Secs(300)>>, 3001, "plain")

Streams ==
    {PlanStream(g, h, v) : g \in SeqsUpTo(Gaps, MaxLaps), h \in Heights, v \in Variants}
    \cup {ResetScenario(3000), ResetScenario(3001), MedianScenario}

Thresholds == {DefaultThreshold, DefaultThreshold + 1}
MinLapTimes == {0, DefaultMinLap, Secs(65)}

\* a lap file left by an earlier run
OldFile == File(<<[time_sec |-> 7, lap_timestamp |-> 0,
                   vals |-> [c \in Range(telemetry_cols) |-> Num(1)]]>>)

NoCall == [fn |-> "", outcome |-> "", value |-> <<>>, wrote |-> FALSE, locals |-> NoLocals]

----------------------------------------------------------------------------
(* The session: one telemetry file, one configuration, the four entry points *)

Init ==
    /\ raw_csv \in Streams
    /\ lap_reset_threshold_meters \in Thresholds
    /\ min_lap_time_seconds \in MinLapTimes
    /\ \E prior \in {NoFile, OldFile} : ghost_csv = prior /\ live_csv = prior
    /\ ret = NoCall
    /\ aligned = NoAligned
    /\ shown = NoShown
    /\ features_df = NoFeatures
    /\ cache = NoCache

\* ghost.py: find_ghost_lap, with ghost_lap_data.to_csv("ghost_lap.csv")
FindGhostLap ==
    /\ ret' = find_ghost_lap(raw_csv, lap_reset_threshold_meters, min_lap_time_seconds)
    /\ ghost_csv' = IF ret'.wrote THEN File(ret'.value) ELSE ghost_csv
    /\ UNCHANGED <<raw_csv, live_csv, lap_reset_threshold_meters, min_lap_time_seconds, aligned, shown, features_df, cache>>

\* get_live_lap.py: find_median_lap, with live_lap_data.to_csv("live_lap.csv")
FindMedianLap ==
    /\ ret' = find_median_lap(raw_csv, lap_reset_threshold_meters, min_lap_time_seconds)
    /\ live_csv' = IF ret'.wrote THEN File(ret'.value) ELSE live_csv
    /\ UNCHANGED <<raw_csv, ghost_csv, lap_reset_threshold_meters, min_lap_time_seconds, aligned, shown, features_df, cache>>

TrainModel ==
    /\ ret' = train_model(raw_csv, lap_reset_threshold_meters, min_lap_time_seconds)
    /\ UNCHANGED <<raw_csv, ghost_csv, live_csv, lap_reset_threshold_meters,
                   min_lap_time_seconds, aligned, shown, features_df, cache>>

LoadAllLapData ==
    LET store == cache.load_all_lap_data
        key == <<"indianapolis/R2_indianapolis_motor_speedway_telemetry.csv",
                 lap_reset_threshold_meters, min_lap_time_seconds>>
    IN /\ ret' = IF key \in Remembered(store) THEN store[key]
                 ELSE load_all_lap_data(raw_csv, lap_reset_threshold_meters,
                                        min_lap_time_seconds)
       /\ cache' = IF key \in Remembered(store) THEN cache
                   ELSE [cache EXCEPT !.load_all_lap_data = (key :> ret') @@ store]
       /\ UNCHANGED <<raw_csv, ghost_csv, live_csv, lap_reset_threshold_meters,
                      min_lap_time_seconds, aligned, shown, features_df>>

Next == FindGhostLap \/ FindMedianLap \/ TrainModel \/ LoadAllLapData

Spec == Init /\ [][Next]_vars

----------------------------------------------------------------------------
(* Claims about segmentation and selection, read off the last call *)

Selectors == {"find_ghost_lap", "find_median_lap"}
Segmenters == Selectors \cup {"train_model", "load_all_lap_data"}

\* the candidate laps of the last call, from its crossing timestamps
Crossings == ret.locals.crossings
Candidates == 1 .. (Len(Crossings) - 1)
DurationOf(i) == Crossings[i + 1] - Crossings[i]
ValidCandidates == {i \in Candidates : DurationOf(i) > min_lap_time_seconds}
Normalized == ret.fn \in Segmenters /\ ret.outcome # "KeyError"

\* C1: the valid lap intervals that train_model and load_all_lap_data work on are pairs
\* of consecutive crossing timestamps, each strictly longer than min_lap_time, pairwise
\* disjoint as half-open ranges and listed by increasing start time.
C1_ValidIntervalsDisjointOrdered ==
    ret.fn \in {"train_model", "load_all_lap_data"} =>
        \A i \in DOMAIN ret.value :
            LET lap == ret.value[i]
            IN /\ lap.duration > min_lap_time_seconds
               /\ lap.duration = lap.end_time - lap.start_time
               /\ \E k \in Candidates :
                     lap.start_time = Crossings[k] /\ lap.end_time = Crossings[k + 1]
               /\ \A j \in DOMAIN ret.value :
                     i < j => /\ lap.end_time <= ret.value[j].start_time
                              /\ lap.start_time < ret.value[j].start_time

C1_Witness ==
    /\ ret.fn = "load_all_lap_data"
    /\ Len(ret.value) >= 2
    /\ Len(ret.value) < Len(Crossings) - 1

\* C2: with a valid candidate, find_ghost_lap returns the interval of least valid
\* duration, the earliest one among equals; end - start is that duration.
C2_FastestIsEarliestMinimum ==
    (ret.fn = "find_ghost_lap" /\ Normalized /\ ValidCandidates # {}) =>
        /\ ret.outcome = "ok"
        /\ \E i \in ValidCandidates :
              /\ ret.locals.start_time = Crossings[i]
              /\ ret.locals.end_time = Crossings[i + 1]
              /\ ret.locals.duration = DurationOf(i)
              /\ \A j \in ValidCandidates : DurationOf(i) <= DurationOf(j)
              /\ \A j \in ValidCandidates : j < i => DurationOf(j) > DurationOf(i)
        /\ ret.locals.end_time - ret.locals.start_time = ret.locals.duration

C2_Witness ==
    /\ ret.fn = "find_ghost_lap"
    /\ ret.outcome = "ok"
    /\ \E i, j \in ValidCandidates :
          i < j /\ DurationOf(i) = ret.locals.duration /\ DurationOf(j) = ret.locals.duration
    /\ \E i \in Candidates : i \notin ValidCandidates

\* twice the median of the valid durations, by counting: the values with at least half
\* of the durations on either side
MedianPair ==
    LET n == Cardinality(ValidCandidates)
        AtMost(v) == Cardinality({i \in ValidCandidates : DurationOf(i) <= v})
        AtLeast(v) == Cardinality({i \in ValidCandidates : DurationOf(i) >= v})
        D == {DurationOf(i) : i \in ValidCandidates}
        Low == {v \in D : 2 * AtMost(v) >= n}
        High == {v \in D : 2 * AtLeast(v) >= n}
    IN (CHOOSE v \in Low : \A w \in Low : v <= w)
       + (CHOOSE v \in High : \A w \in High : v >= w)

Deviation(i) == AbsVal(2 * DurationOf(i) - MedianPair)

\* C3: with a valid candidate, find_median_lap returns the valid candidate whose duration
\* is nearest the median of the valid durations (the mean of the two middle values for an
\* even count), the first one among equals; for laps of 60.1, 65.0, 70.2 and 300.0 s and
\* min_lap_time 60 s it returns the lap of 65.0 s.
C3_MedianIsNearestFirst ==
    (ret.fn = "find_median_lap" /\ Normalized /\ ValidCandidates # {}) =>
        /\ ret.outcome = "ok"
        /\ \E i \in ValidCandidates :
              /\ ret.locals.start_time = Crossings[i]
              /\ ret.locals.end_time = Crossings[i + 1]
              /\ ret.locals.duration = DurationOf(i)
              /\ \A j \in ValidCandidates : Deviation(i) <= Deviation(j)
              /\ \A j \in ValidCandidates : j < i => Deviation(j) > Deviation(i)
        /\ (raw_csv = MedianScenario /\ min_lap_time_seconds = DefaultMinLap)
              => ret.locals.duration = Secs(65)

C3_Witness ==
    /\ ret.fn = "find_median_lap"
    /\ raw_csv = MedianScenario
    /\ min_lap_time_seconds = DefaultMinLap
    /\ Cardinality(ValidCandidates) = 4
    /\ ret.locals.duration = Secs(65)

\* C4: with fewer than two crossings in the normalized frame, find_ghost_lap and
\* find_median_lap end in the insufficient-data outcome: no lap record is returned and
\* ghost_lap.csv and live_lap.csv are left as they were before the call.
C4_InsufficientDataLeavesFiles ==
    [][(ret'.fn \in Selectors /\ ret'.outcome # "KeyError"
            /\ Len(ret'.locals.crossings) < 2)
        => /\ ret'.outcome = "insufficient_data"
           /\ ret'.value = <<>>
           /\ ghost_csv' = ghost_csv
           /\ live_csv' = live_csv]_vars

C4_Witness ==
    /\ ret.fn = "find_median_lap"
    /\ ret.outcome = "insufficient_data"
    /\ Len(Crossings) = 1
    /\ Len(ret.locals.frame) > 2
    /\ live_csv = OldFile

WellFormedStream == \A i \in DOMAIN raw_csv : raw_csv[i].timestamp >= 0

\* C5 (as claimed): with two or more crossings and no candidate longer than
\* min_lap_time, each of the four segmenting entry points ends in the no-valid-lap
\* outcome; none returns an empty lap list as a success or works on zero laps.
\* Stated here for streams whose timestamps all parse.
C5_NoValidLapEverywhere ==
    (Normalized /\ WellFormedStream /\ Len(Crossings) >= 2 /\ ValidCandidates = {}) =>
        /\ ret.outcome = "no_valid_lap"
        /\ ret.value = <<>>

\* the times the reset scenario is about
ScenarioCrossings == <<Secs(100), Secs(165)>>
OneLapFound ==
    /\ ret.outcome = "ok"
    /\ Crossings = ScenarioCrossings
    /\ ValidCandidates = {1}
    /\ ret.locals.start_time = Secs(100)
    /\ ret.locals.end_time = Secs(165)
    /\ ret.locals.duration = Secs(65)
DefaultConfiguration ==
    lap_reset_threshold_meters = DefaultThreshold /\ min_lap_time_seconds = DefaultMinLap

\* C6 (as claimed): resets from 3000 to 0 at t = 100 s and t = 165 s, threshold -3000
\* and minimum 60 s: both resets are crossings and the one valid lap is (100, 165), 65 s.
C6_ResetOf3000Detected ==
    (ret.fn = "find_ghost_lap" /\ raw_csv = ResetScenario(3000) /\ DefaultConfiguration)
        => OneLapFound

\* C6 (amended): the same scenario with resets of more than 3000 (3001 to 0) yields the
\* one valid lap (100, 165) of 65 s; a reset of exactly 3000 is no crossing.
C6_ResetBeyondThresholdDetected ==
    (ret.fn = "find_ghost_lap" /\ DefaultConfiguration) =>
        /\ raw_csv = ResetScenario(3001) => OneLapFound
        /\ raw_csv = ResetScenario(3000) => Crossings = <<>>

C6_Witness ==
    /\ ret.fn = "find_ghost_lap"
    /\ raw_csv = ResetScenario(3001)
    /\ DefaultConfiguration
    /\ OneLapFound

\* C7: a lap record returned by find_ghost_lap or find_median_lap holds exactly the frame
\* rows with start <= time_sec < end of the selected interval, is not empty, has least
\* lap_timestamp 0 and every lap_timestamp in [0, end - start).
C7_LapRecordIsRebasedSlice ==
    (ret.fn \in Selectors /\ ret.outcome = "ok") =>
        LET frame == ret.locals.frame
            inside == {k \in DOMAIN frame :
                          /\ frame[k].time_sec >= ret.locals.start_time
                          /\ frame[k].time_sec < ret.locals.end_time}
        IN /\ Len(ret.value) = Cardinality(inside)
           /\ \A k \in inside : \E r \in DOMAIN ret.value :
                 /\ ret.value[r].time_sec = frame[k].time_sec
                 /\ ret.value[r].vals = frame[k].vals
           /\ ret.value # <<>>
           /\ \E r \in DOMAIN ret.value : ret.value[r].lap_timestamp = 0
           /\ \A r \in DOMAIN ret.value :
                 /\ ret.value[r].lap_timestamp >= 0
                 /\ ret.value[r].lap_timestamp < ret.locals.end_time - ret.locals.start_time
                 /\ ret.value[r].lap_timestamp = ret.value[r].time_sec - ret.locals.start_time

C7_Witness ==
    /\ ret.fn = "find_median_lap"
    /\ ret.outcome = "ok"
    /\ Len(ret.value) >= 2
    /\ Len(ret.value) < Len(ret.locals.frame)
    /\ \E r \in DOMAIN ret.value : ret.value[r].lap_timestamp > 0

\* the channels observed in the stream, and whether its distance channel is usable
Observed == {raw_csv[i].telemetry_name : i \in DOMAIN raw_csv}

\* C8 (as claimed): a stream that has the distance channel normalizes, also with
\* malformed timestamps or a channel never observed; the frame's time_sec never
\* decreases from row to row and every configured channel is a column of it.
C8_FrameSortedAllChannels ==
    (ret.fn \in Selectors /\ DIST \in Observed) =>
        /\ ret.outcome # "KeyError"
        /\ \A k \in DOMAIN ret.locals.frame :
              /\ k > 1 => ret.locals.frame[k - 1].time_sec <= ret.locals.frame[k].time_sec
              /\ DOMAIN ret.locals.frame[k].vals = Range(telemetry_cols)

\* C19: no row with a malformed timestamp survives normalization: every row of the
\* normalized frame carries a parsed timestamp, the time_sec of that timestamp and a
\* distance value, so no crossing is taken at a malformed row and no lap record holds
\* one
C19_NoMalformedRowSurvives ==
    ret.fn \in Selectors =>
        /\ \A k \in DOMAIN ret.locals.frame :
              /\ ToDatetime(ret.locals.frame[k].timestamp) # NaT
              /\ ret.locals.frame[k].time_sec = ret.locals.frame[k].timestamp
              /\ NotNaN(ret.locals.frame[k].vals[DIST])
        /\ \A j \in DOMAIN Crossings : Crossings[j] # NaTSec
        /\ \A r \in DOMAIN ret.value : ret.value[r].time_sec # NaTSec

----------------------------------------------------------------------------
(* The coach page: two lap files on disk, aligned by load_and_prepare_data *)

MaxLapTicks == 5

\* the sample times of a lap file: lap_timestamp starts at 0
LapTimes == {SortedKeys({0} \cup T) : T \in SUBSET (1 .. MaxLapTicks)}

\* speed is first recorded at row first (never, if first > rows), at 100 + slope * t;
\* the distance is 1000 * t, or never recorded
LapRows(times, first, slope, dist_on) ==
    [k \in DOMAIN times |->
       [time_sec |-> Secs(10) + times[k], lap_timestamp |-> times[k],
        vals |-> [c \in Range(align_cols) |->
                    IF c = SPEED
                    THEN (IF k < first THEN NaN ELSE Num(100 + slope * times[k]))
                    ELSE (IF dist_on THEN Num(1000 * times[k]) ELSE NaN)]]]

\* the same lap without its speed column
WithoutSpeed(rows) ==
    [k \in DOMAIN rows |->
       [time_sec |-> rows[k].time_sec, lap_timestamp |-> rows[k].lap_timestamp,
        vals |-> [c \in {DIST} |-> rows[k].vals[c]]]]

LapFiles ==
    {File(LapRows(times, first, slope, dist_on)) :
        times \in LapTimes, first \in 1 .. (MaxLapTicks + 2),
        slope \in {0, 7}, dist_on \in BOOLEAN}
    \cup {File(WithoutSpeed(LapRows(times, 1, 0, TRUE))) : times \in LapTimes}

\* two laps long enough for a second slider position
LongFiles == {File(LapRows(<<0, 11, 22>>, 1, slope, TRUE)) : slope \in {0, 7}}

ReferenceFiles ==
    {File(LapRows(<<0, 3>>, 1, 0, TRUE)),
     File(LapRows(<<0, 1, 2, 3, 4, 5>>, 2, 7, TRUE)),
     File(LapRows(<<0>>, 1, 0, TRUE)),
     NoFile}

InitAlign ==
    /\ raw_csv = <<>>
    /\ lap_reset_threshold_meters = DefaultThreshold
    /\ min_lap_time_seconds = DefaultMinLap
    /\ \/ ghost_csv \in ReferenceFiles /\ live_csv \in LapFiles
       \/ ghost_csv \in LapFiles /\ live_csv \in ReferenceFiles
       \/ ghost_csv \in LongFiles /\ live_csv \in LongFiles
    /\ ret = NoCall
    /\ aligned = NoAligned
    /\ shown = NoShown
    /\ features_df = NoFeatures
    /\ cache = NoCache

\* one run of the coach page: ghost, live, ... = load_and_prepare_data("ghost_lap.csv",
\* "live_lap.csv"), then the display at the slider position
LoadAndPrepareData ==
    LET store == cache.load_and_prepare_data
        key == <<"ghost_lap.csv", "live_lap.csv">>
    IN /\ aligned' = IF key \in Remembered(store) THEN store[key]
                     ELSE load_and_prepare_data(ghost_csv, live_csv)
       /\ cache' = IF key \in Remembered(store) THEN cache
                   ELSE [cache EXCEPT !.load_and_prepare_data = (key :> aligned') @@ store]
       /\ \E current_time \in (IF aligned'.outcome = "ok" /\ aligned'.live # <<>>
                               THEN SliderPositions(aligned'.live) ELSE {0}) :
            shown' = Display(aligned', current_time)
       /\ UNCHANGED <<raw_csv, ghost_csv, live_csv, lap_reset_threshold_meters,
                      min_lap_time_seconds, ret, features_df>>

NextAlign == LoadAndPrepareData

SpecAlign == InitAlign /\ [][NextAlign]_vars

----------------------------------------------------------------------------
(* The same samples in every row order, given to the lap selectors *)

\* two laps of 65 s each
TwoLapSamples ==
    <<Sample(0, DIST, 3001), Sample(1, SPEED, 100),
      Sample(Secs(10), DIST, 0), Sample(Secs(10) + 1, DIST, 3001),
      Sample(Secs(75), DIST, 0), Sample(Secs(75) + 1, DIST, 3001),
      Sample(Secs(140), DIST, 0)>>

\* one lap, the distance before the second reset sampled twice under one timestamp
DuplicateSamples ==
    <<Sample(0, DIST, 3001), Sample(1, SPEED, 100), Sample(Secs(10), DIST, 0),
      Sample(Secs(10) + 1, DIST, 3001), Sample(Secs(10) + 1, DIST, 2999),
      Sample(Secs(75), DIST, 0)>>

\* one lap and a sample whose timestamp does not parse
MalformedSamples ==
    <<Sample(-1, DIST, 0), Sample(0, DIST, 3001), Sample(1, SPEED, 100),
      Sample(Secs(10), DIST, 0), Sample(Secs(10) + 1, DIST, 3001),
      Sample(Secs(75), DIST, 0)>>

OrderBases == {TwoLapSamples, DuplicateSamples, MalformedSamples}

\* every row order of a stream
Reorderings(base) ==
    {[i \in DOMAIN base |-> base[p[i]]] : p \in Permutations(DOMAIN base)}

InitOrder ==
    /\ \E base \in OrderBases : raw_csv \in Reorderings(base)
    /\ lap_reset_threshold_meters \in Thresholds
    /\ min_lap_time_seconds = DefaultMinLap
    /\ ghost_csv = NoFile
    /\ live_csv = NoFile
    /\ ret = NoCall
    /\ aligned = NoAligned
    /\ shown = NoShown
    /\ features_df = NoFeatures
    /\ cache = NoCache

NextOrder == FindGhostLap

SpecOrder == InitOrder /\ [][NextOrder]_vars

----------------------------------------------------------------------------
(* The prediction page and the trainer's feature loop, on one saved lap *)

MaxFeatureRows == 4

\* recorded values of one channel, row by row; a negative entry is a row without a value
ThrottleTraces ==
    {<<100, 100, 50, 0, 97, 95>>, <<96, 95, -1, 100, 95, 96>>, <<95, 95, 95, 95, 95, 95>>,
     <<96, 96, 96, 96, 96, 96>>, <<-1, -1, -1, -1, -1, -1>>}
BrakeTraces == {<<0, 5, 6, 20, 5, 0>>, <<6, 6, 6, 6, 6, 6>>, <<-1, -1, -1, -1, -1, -1>>}
SpeedTraces == {<<100, 120, -1, 90, 80, 130>>, <<-1, -1, -1, -1, -1, -1>>}
RpmTraces == {<<5000, 7000, 6000, -1, 6500, 4000>>, <<-1, -1, -1, -1, -1, -1>>}

\* the steering angle is signed: the trace holds the angle plus 100
SteeringTraces == {<<90, 105, 100, 97, 130, 60>>, <<-1, -1, -1, -1, -1, -1>>}

Cell(trace, k, offset) == IF trace[k] < 0 THEN NaN ELSE Num(trace[k] - offset)

FeatureRows(n, speed, rpm, aps, brake, steering) ==
    [k \in 1 .. n |->
       [time_sec |-> Secs(10) + k - 1, lap_timestamp |-> k - 1,
        vals |-> (SPEED :> Cell(speed, k, 0)) @@ (NMOT :> Cell(rpm, k, 0))
                 @@ (APS :> Cell(aps, k, 0)) @@ (PBRAKE_F :> Cell(brake, k, 0))
                 @@ (STEERING :> Cell(steering, k, 100)) @@ (DIST :> Num(1000 * k))]]

\* the same lap without column c
WithoutColumn(rows, c) ==
    [k \in DOMAIN rows |->
       [time_sec |-> rows[k].time_sec, lap_timestamp |-> rows[k].lap_timestamp,
        vals |-> [d \in DOMAIN rows[k].vals \ {c} |-> rows[k].vals[d]]]]

FeatureLaps ==
    {FeatureRows(n, speed, rpm, aps, brake, steering) :
        n \in 1 .. MaxFeatureRows, speed \in SpeedTraces, rpm \in RpmTraces,
        aps \in ThrottleTraces, brake \in BrakeTraces, steering \in SteeringTraces}

FeatureFiles ==
    {File(lap) : lap \in FeatureLaps}
    \cup {File(WithoutColumn(lap, c)) : lap \in FeatureLaps, c \in {APS, PBRAKE_F}}

InitFeatures ==
    /\ raw_csv = <<>>
    /\ lap_reset_threshold_meters = DefaultThreshold
    /\ min_lap_time_seconds = DefaultMinLap
    /\ ghost_csv \in FeatureFiles
    /\ live_csv \in {NoFile,
                     File(FeatureRows(2, <<100, 120, -1, 90, 80, 130>>,
                                      <<5000, 7000, 6000, -1, 6500, 4000>>,
                                      <<100, 100, 50, 0, 97, 95>>, <<0, 5, 6, 20, 5, 0>>,
                                      <<90, 105, 100, 97, 130, 60>>))}
    /\ ret = NoCall
    /\ aligned = NoAligned
    /\ shown = NoShown
    /\ features_df = NoFeatures
    /\ cache = NoCache

\* pages/1: the button handler on the lap file chosen in the select box
GeneratePrediction ==
    /\ \E file \in {ghost_csv, live_csv} : features_df' = generate_prediction(file)
    /\ UNCHANGED <<raw_csv, ghost_csv, live_csv, lap_reset_threshold_meters,
                   min_lap_time_seconds, ret, aligned, shown, cache>>

\* model_trainer.py: the loop body on the slice of one valid lap. The slice of the
\* fastest lap holds the rows find_ghost_lap saved; a slice of df_valid has every
\* telemetry column and an empty slice is skipped
EngineerFeatures ==
    /\ ghost_csv.exists /\ ghost_csv.rows # <<>>
    /\ {SPEED, NMOT, APS, PBRAKE_F, STEERING} \subseteq ColumnsOf(ghost_csv.rows)
    /\ features_df' = [fn |-> "train_model", outcome |-> "ok", lap |-> ghost_csv.rows,
                       value |-> lap_features(ghost_csv.rows), filled |-> <<>>]
    /\ UNCHANGED <<raw_csv, ghost_csv, live_csv, lap_reset_threshold_meters,
                   min_lap_time_seconds, ret, aligned, shown, cache>>

NextFeatures == GeneratePrediction \/ EngineerFeatures

SpecFeatures == InitFeatures /\ [][NextFeatures]_vars

----------------------------------------------------------------------------
(* One server process: the pages are rerun while the files on disk change *)

\* the telemetry CSV of one session and of the next
CacheStreams ==
    {PlanStream(<<Secs(65)>>, h, v) : h \in Heights, v \in {"plain", "dup"}}

InitCache ==
    /\ raw_csv \in CacheStreams
    /\ lap_reset_threshold_meters \in Thresholds
    /\ min_lap_time_seconds = DefaultMinLap
    /\ ghost_csv = NoFile
    /\ live_csv = File(LapRows(<<0, 3>>, 1, 7, TRUE))
    /\ ret = NoCall
    /\ aligned = NoAligned
    /\ shown = NoShown
    /\ features_df = NoFeatures
    /\ cache = NoCache

\* the telemetry CSV at csv_path is replaced by another session's
NewTelemetry ==
    /\ raw_csv' \in CacheStreams \ {raw_csv}
    /\ UNCHANGED <<ghost_csv, live_csv, lap_reset_threshold_meters, min_lap_time_seconds,
                   ret, aligned, shown, features_df, cache>>

\* the next call passes another lap_reset_threshold_meters
Configure ==
    /\ lap_reset_threshold_meters' \in Thresholds \ {lap_reset_threshold_meters}
    /\ UNCHANGED <<raw_csv, ghost_csv, live_csv, min_lap_time_seconds,
                   ret, aligned, shown, features_df, cache>>

NextCache ==
    NewTelemetry \/ Configure \/ FindGhostLap \/ LoadAndPrepareData \/ LoadAllLapData

SpecCache == InitCache /\ [][NextCache]_vars

----------------------------------------------------------------------------
(* The post-event page on laps whose distance signal wanders between the sectors *)

\* distance samples between two resets
MaxSectorSamples == 4
\* one distance inside each of the three sectors
SectorDistances == {1000, 2000, 2800}
Profiles == [1 .. MaxSectorSamples -> SectorDistances]
\* a lap that goes through the sectors in turn, and one that falls back
Climbing == [k \in 1 .. MaxSectorSamples |-> IF k = 1 THEN 1000 ELSE 2000]
Wandering == [k \in 1 .. MaxSectorSamples |-> IF k % 2 = 1 THEN 2800 ELSE 1000]

\* a lap from start to start + gap: the reset to 0, a sample every ten seconds and the
\* climb to 3001 one tick before the next reset
NoisyLap(start, gap, profile) ==
    <<Sample(start, DIST, 0)>>
    \o [k \in DOMAIN profile |-> Sample(start + k * Secs(10), DIST, profile[k])]
    \o <<Sample(start + gap - 1, DIST, 3001)>>

\* one or two laps after the first reset at t = 10 s, closed by a last reset
NoisyStreams ==
    {<<Sample(0, DIST, 3001)>> \o NoisyLap(Secs(10), gap, profile)
        \o <<Sample(Secs(10) + gap, DIST, 0)>> :
        gap \in Gaps, profile \in Profiles}
    \cup
    {<<Sample(0, DIST, 3001)>> \o NoisyLap(Secs(10), Secs(60), first)
        \o NoisyLap(Secs(70), Secs(65), second)
        \o <<Sample(Secs(135), DIST, 0)>> :
        first \in Profiles, second \in {Climbing, Wandering}}

InitSectors ==
    /\ raw_csv \in NoisyStreams
    /\ lap_reset_threshold_meters = DefaultThreshold
    /\ min_lap_time_seconds = DefaultMinLap
    /\ ghost_csv = NoFile
    /\ live_csv = NoFile
    /\ ret = NoCall
    /\ aligned = NoAligned
    /\ shown = NoShown
    /\ features_df = NoFeatures
    /\ cache = NoCache

NextSectors == LoadAllLapData

SpecSectors == InitSectors /\ [][NextSectors]_vars

----------------------------------------------------------------------------
(* Claims about the aligned lap tables *)

Aligned == aligned.outcome = "ok"

\* C9: after load_and_prepare_data succeeds, the ghost table and the live table have
\* the same time index: equally many rows, the same time at every position, the first
\* time 0 and every later one exactly one grid step (0.01 s) after its predecessor
C9_SharedUniformIndex ==
    Aligned =>
      /\ Len(aligned.ghost) = Len(aligned.live)
      /\ \A i \in DOMAIN aligned.ghost :
           /\ aligned.ghost[i].t = aligned.live[i].t
           /\ i = 1 => aligned.ghost[i].t = 0
           /\ i > 1 => aligned.ghost[i].t = aligned.ghost[i - 1].t + GridStep

\* two laps of different length, one of them sampled off the grid, aligned on a grid
\* of three points
C9_Witness ==
    /\ Aligned
    /\ Len(aligned.ghost) = 3
    /\ Len(ghost_csv.rows) # Len(live_csv.rows)
    /\ MaxOf({r.lap_timestamp : r \in Range(ghost_csv.rows)})
         # MaxOf({r.lap_timestamp : r \in Range(live_csv.rows)})
    /\ \E r \in Range(live_csv.rows) : r.lap_timestamp % GridStep # 0

\* the channel has at least one recorded value in the lap file
Recorded(file, c) ==
    \E r \in Range(file.rows) : c \in DOMAIN r.vals /\ NotNaN(r.vals[c])

\* the aligned column is defined at every grid point / at none
Everywhere(table, c) == \A i \in DOMAIN table : NotNaN(table[i].vals[c])
Nowhere(table, c) == \A i \in DOMAIN table : IsNaN(table[i].vals[c])

\* C10: after resampling, a channel with at least one recorded value in a lap file is
\* defined at every grid point of that lap's table, and a channel the file never
\* recorded or lacks as a column is an all-NaN column and does not make alignment fail
C10_RecordedChannelsDefinedEverywhere ==
    (ghost_csv.exists /\ live_csv.exists /\ aligned.outcome # "") =>
      /\ Aligned
      /\ \A c \in Range(align_cols) :
           /\ IF Recorded(ghost_csv, c) THEN Everywhere(aligned.ghost, c)
                                         ELSE Nowhere(aligned.ghost, c)
           /\ IF Recorded(live_csv, c) THEN Everywhere(aligned.live, c)
                                        ELSE Nowhere(aligned.live, c)

\* the last value of the cumulative delta column, NaN on an empty table
FinalCumulativeDelta ==
    IF aligned.live = <<>> THEN NaN
    ELSE aligned.live[Len(aligned.live)].time_delta_cumulative

\* the sum of the Delta (s) column of the sector summary
SectorDeltaSum ==
    LET rows == aligned.sector_analysis
    IN Plus(Plus(rows[1].delta, rows[2].delta), rows[3].delta)

\* |a - b| <= 1e-6 for two numbers
WithinTolerance(a, b) ==
    LET d == Minus(a, b) IN AbsVal(d[1]) <= d[2] \div 1000000

\* C11: for every aligned pair whose cumulative delta is a number, the sector deltas of
\* the sector summary sum to the final value of the cumulative delta column, within
\* 1e-6 s
C11_SectorDeltasSumToCumulative ==
    (Aligned /\ NotNaN(FinalCumulativeDelta)) =>
      WithinTolerance(SectorDeltaSum, FinalCumulativeDelta)

IsZero(c) == NotNaN(c) /\ c[1] = 0
SameNumber(a, b) == NotNaN(a) /\ NotNaN(b) /\ a[1] * b[2] = b[1] * a[2]

\* ghost and live have the same speed at every grid step
IdenticalSpeeds ==
    /\ Aligned
    /\ aligned.live # <<>>
    /\ \A i \in DOMAIN aligned.live :
         SameNumber(aligned.live[i].vals[SPEED], aligned.ghost[i].vals[SPEED])

\* C12: for an aligned pair with equal ghost and live speed at every grid step, whatever
\* the distance channels hold, the cumulative delta is 0 at every grid step and every
\* sector delta of the sector summary is 0
C12_IdenticalSpeedsZeroDeltas ==
    IdenticalSpeeds =>
      /\ \A i \in DOMAIN aligned.live : IsZero(aligned.live[i].time_delta_cumulative)
      /\ \A b \in DOMAIN aligned.sector_analysis : IsZero(aligned.sector_analysis[b].delta)

Negative(c) == NotNaN(c) /\ c[1] < 0

\* speed of table a minus speed of table b at grid step i
SpeedGap(a, b, i) == Minus(a[i].vals[SPEED], b[i].vals[SPEED])

\* table a is at least as fast as table b at every grid step and faster at some step
NeverSlowerSomewhereFaster(a, b) ==
    /\ Aligned
    /\ \A i \in DOMAIN a : NotNaN(SpeedGap(a, b, i)) /\ SpeedGap(a, b, i)[1] >= 0
    /\ \E i \in DOMAIN a : SpeedGap(a, b, i)[1] > 0

\* C13: sign convention of the cumulative delta: a live lap never slower than the ghost
\* and somewhere faster ends with a negative cumulative delta and is not shown as
\* SLOWER at any slider position; a live lap never faster and somewhere slower ends
\* with a positive cumulative delta
C13_FasterLiveHasNegativeDelta ==
    /\ NeverSlowerSomewhereFaster(aligned.live, aligned.ghost) =>
         Negative(FinalCumulativeDelta) /\ shown.verdict # "SLOWER"
    /\ NeverSlowerSomewhereFaster(aligned.ghost, aligned.live) =>
         Positive(FinalCumulativeDelta)

\* the distance channel has no value at any grid row of the ghost or of the live table
DistanceAbsent ==
    /\ Aligned
    /\ aligned.live # <<>>
    /\ Nowhere(aligned.ghost, DIST) \/ Nowhere(aligned.live, DIST)

\* C14: when the distance channel is completely absent in the ghost or in the live
\* record, no sector of the sector summary carries a number as its delta: every sector
\* delta is undefined, none is 0.0
C14_AbsentDistanceLeavesSectorsUndefined ==
    DistanceAbsent =>
      \A b \in DOMAIN aligned.sector_analysis : IsNaN(aligned.sector_analysis[b].delta)

\* the sectors whose range (lower, upper] holds the distance of row i of the table
RangesOf(table, i) ==
    LET d == table[i].vals[DIST]
    IN IF IsNaN(d) THEN {}
       ELSE {b \in 1 .. 3 : /\ SectorBins[b] * d[2] < 10 * d[1]
                            /\ 10 * d[1] <= SectorBins[b + 1] * d[2]}

InRangeRows(table) == {i \in DOMAIN table : RangesOf(table, i) # {}}

\* the row whose range an out-of-range row takes over: the nearest earlier in-range
\* row, or the first later one if there is no earlier one
Donor(table, i) ==
    LET earlier == {j \in InRangeRows(table) : j < i}
        later == {j \in InRangeRows(table) : j > i}
    IN IF earlier # {} THEN MaxOf(earlier)
       ELSE CHOOSE j \in later : \A k \in later : j <= k

SectorsAssigned(table) ==
    \A i \in DOMAIN table :
      /\ \A b \in RangesOf(table, i) : table[i].sector = <<SectorLabels[b]>>
      /\ (RangesOf(table, i) = {} /\ InRangeRows(table) # {}) =>
           table[i].sector = table[Donor(table, i)].sector
      /\ InRangeRows(table) # {} =>
           \E b \in 1 .. 3 : table[i].sector = <<SectorLabels[b]>>

\* C17: in the ghost and in the live table a grid row whose distance lies in a sector
\* range (lower, upper] carries that sector's name; a row whose distance lies in no
\* range (0 and below, above 6000, or missing) carries the label of the nearest earlier
\* in-range row, or of the first later one if none is earlier; so in a table with at
\* least one in-range row every row carries exactly one label
C17_EveryGridRowLabelled ==
    Aligned => SectorsAssigned(aligned.ghost) /\ SectorsAssigned(aligned.live)

\* a live table whose first row is labelled from a later row and whose last row is
\* labelled from an earlier one
C17_Witness ==
    /\ Aligned
    /\ Len(aligned.live) > 2
    /\ 1 \notin InRangeRows(aligned.live)
    /\ Len(aligned.live) \notin InRangeRows(aligned.live)
    /\ InRangeRows(aligned.live) # {}
    /\ aligned.live[1].sector = <<"Sector 2">>
    /\ aligned.live[Len(aligned.live)].sector = <<"Sector 3">>

----------------------------------------------------------------------------
(* Claims about the lap features *)

Extracted == features_df.outcome = "ok"

\* 100 times the share of the lap's rows whose value of channel c is above the limit
PercentAbove(lap, c, limit) ==
    <<100 * Cardinality({k \in DOMAIN lap :
                           /\ NotNaN(lap[k].vals[c])
                           /\ lap[k].vals[c][1] > limit * lap[k].vals[c][2]}),
      Len(lap)>>

InPercentRange(c) == NotNaN(c) /\ 0 <= c[1] /\ c[1] <= 100 * c[2]

\* C15: percent_full_throttle is 100 times the share of the lap's samples with throttle
\* above 95 and percent_braking 100 times the share with front brake pressure above 5,
\* both within [0, 100]; throttle values 100, 100, 50, 0 give 50; the trainer's loop
\* and extract_features compute the same features from the same lap
C15_PercentFeaturesAreShares ==
    Extracted =>
      /\ SameNumber(features_df.value.percent_full_throttle,
                    PercentAbove(features_df.lap, APS, 95))
      /\ SameNumber(features_df.value.percent_braking,
                    PercentAbove(features_df.lap, PBRAKE_F, 5))
      /\ InPercentRange(features_df.value.percent_full_throttle)
      /\ InPercentRange(features_df.value.percent_braking)
      /\ Column(features_df.lap, APS) = <<Num(100), Num(100), Num(50), Num(0)>>
           => SameNumber(features_df.value.percent_full_throttle, Num(50))
      /\ features_df.value = lap_features(features_df.lap)
      /\ features_df.value = extract_features(features_df.lap).value

\* extract_features on a lap with throttle 100, 100, 50, 0
C15_Witness ==
    /\ Extracted
    /\ features_df.fn = "extract_features"
    /\ Column(features_df.lap, APS) = <<Num(100), Num(100), Num(50), Num(0)>>
    /\ SameNumber(features_df.value.percent_full_throttle, Num(50))

\* the lap has no usable input in channel c: the column is absent or NaN in every row
NoInput(lap, c) ==
    c \notin ColumnsOf(lap) \/ \A k \in DOMAIN lap : IsNaN(lap[k].vals[c])

\* C16: for each of the eight features, when the lap that extract_features is given has
\* no usable input for the feature's channel, extract_features does not fail and
\* returns NaN for that feature
C16_MissingInputGivesNaN ==
    (features_df.fn = "extract_features" /\ features_df.lap # <<>>) =>
      /\ Extracted
      /\ \A i \in DOMAIN feature_names :
           NoInput(features_df.lap, FeatureChannel[feature_names[i]])
             => IsNaN(features_df.value[feature_names[i]])

----------------------------------------------------------------------------
(* Claims about the order of the input rows *)

\* the two streams hold the same samples, each as often as the other
SameSamples(a, b) ==
    /\ Len(a) = Len(b)
    /\ \A x \in Range(a) \cup Range(b) :
         Cardinality({i \in DOMAIN a : a[i] = x}) = Cardinality({i \in DOMAIN b : b[i] = x})

\* what a selector call selected: its outcome, the interval and the lap record
Selection(r) ==
    <<r.outcome, r.locals.start_time, r.locals.end_time, r.locals.duration, r.value>>

\* C18: the fastest-lap selection does not depend on the order of the raw rows: on any
\* reordering of a stream find_ghost_lap ends with the same outcome, the same interval
\* (start, end, duration) and the same lap record as on the stream itself
C18_SelectionIgnoresRowOrder ==
    ret.fn = "find_ghost_lap" =>
      \A base \in OrderBases :
        SameSamples(raw_csv, base) =>
          Selection(ret) = Selection(find_ghost_lap(base, lap_reset_threshold_meters,
                                                    min_lap_time_seconds))

\* a lap selected from a stream that lists its last sample first and holds two samples
\* under one timestamp
C18_Witness ==
    /\ ret.fn = "find_ghost_lap"
    /\ ret.outcome = "ok"
    /\ SameSamples(raw_csv, DuplicateSamples)
    /\ raw_csv[1].timestamp = Secs(75)
    /\ raw_csv[2] = Sample(Secs(10) + 1, DIST, 2999)

----------------------------------------------------------------------------
(* Claims about the cached page functions *)

\* the result a call returns when it is computed from what is on disk now
FreshAligned == load_and_prepare_data(ghost_csv, live_csv)
FreshLaps == load_all_lap_data(raw_csv, lap_reset_threshold_meters, min_lap_time_seconds)

\* C20: a cached result is never served for changed input: every call of
\* load_and_prepare_data and of load_all_lap_data returns the result computed from the
\* current content of its input files and its current threshold parameters (so a call
\* with unchanged path, content and parameters returns what the previous one did)
C20_CallsReturnCurrentInput ==
    [][/\ LoadAndPrepareData => aligned' = FreshAligned
       /\ LoadAllLapData => ret' = FreshLaps]_vars

\* the coach page has a stored result that is not the one the files on disk give
C20_StaleAligned ==
    /\ <<"ghost_lap.csv", "live_lap.csv">> \in Remembered(cache.load_and_prepare_data)
    /\ cache.load_and_prepare_data[<<"ghost_lap.csv", "live_lap.csv">>] # FreshAligned

----------------------------------------------------------------------------
(* Claims about the sector times of the post-event page *)

LapsTable == ret.fn = "load_all_lap_data" /\ ret.outcome = "ok" /\ ret.value # <<>>

\* the rows of a lap visit the sectors one after the other, none a second time
SectorsInTurn(lap) ==
    \A i, j, k \in DOMAIN lap.data :
        (i < j /\ j < k /\ lap.data[i].sector = lap.data[k].sector)
            => lap.data[j].sector = lap.data[i].sector

\* C21: in every lap record of load_all_lap_data S1 + S2 + S3 is at most the lap's
\* duration, so the theoretical best is at most the fastest lap time and the potential
\* gain is never negative, also when the sector labels interleave in time within a lap
C21_SectorTimesWithinLap ==
    LapsTable =>
        /\ \A j \in DOMAIN ret.value :
              ret.value[j].S1 + ret.value[j].S2 + ret.value[j].S3 <= ret.value[j].duration
        /\ RaceSummary(ret.value).potential_gain >= 0

\* a lap whose labels interleave and whose sector times add up to more than the lap
C21_SectorTimesExceedLap ==
    /\ LapsTable
    /\ \E j \in DOMAIN ret.value :
          /\ ~SectorsInTurn(ret.value[j])
          /\ ret.value[j].S1 + ret.value[j].S2 + ret.value[j].S3 > ret.value[j].duration
    /\ RaceSummary(ret.value).potential_gain < 0

\* the part that holds: a lap that visits its sectors in turn keeps the sum within
\* its duration
C21_InTurnWithinLap ==
    LapsTable =>
        \A j \in DOMAIN ret.value :
            SectorsInTurn(ret.value[j]) =>
                ret.value[j].S1 + ret.value[j].S2 + ret.value[j].S3 <= ret.value[j].duration

====
